---- MODULE Spec2Model ----
(***************************************************************************)
(* Consultation-booking workflow of the stress-management backend:         *)
(* the consultant_bookings table and the request handlers of               *)
(* psychiatrist.py, consultant.py and dashboard.py that create, move,      *)
(* approve, reject, cancel and complete bookings.                          *)
(*                                                                         *)
(* Every handler runs in its own SQLAlchemy session; `bookings` is the     *)
(* committed content of the table.  A handler that commits once is one     *)
(* step.  book_psychiatrist and book_psychiatrist_for_employee are two     *)
(* steps (the existence check, then the insert) and the approval handler   *)
(* is one step per commit, because NotificationService.create_notification *)
(* commits the caller's session: the states between two commits of one     *)
(* handler are states of the model.  `workers` is the set of server        *)
(* processes taking requests: one in Spec (requests served one at a        *)
(* time), two in SpecConc.                                                 *)
(***************************************************************************)
EXTENDS Integers, Sequences, FiniteSets, TLC

\* ---------------------------------------------------------------- bounds
MaxBookings == 3
MaxConcBookings == 2
MaxNow == 1
MaxWindows == 2
MaxStoredBookings == 1
MaxDayBookings == 2
MaxOtherDateBookings == 1

\* Tasks of one employee in the past 24 hours.
MaxTasks == 3

\* Tasks of the employee whose assessment is scored.
MaxStressTasks == 6

\* Rows of the stress_scores table.
MaxScoreRows == 3

\* ------------------------------------------------------------ value sets
Procs == {1, 2}
Consultants == {1, 2}
\* Booking instants: consecutive days at one wall-clock time.
Dates == {1, 2}

BookingStatus == {"pending", "approved", "rejected", "completed", "cancelled"}

NoReason == ""
AutoCancelReason == "Automatically cancelled - another request was approved for this time slot"
GivenReasons == {"", "not a fit"}
RequestedStatuses == {"approved", "rejected", "other"}
\* rejection_reason is read only when the requested status is "rejected".
ReasonsFor(st) == IF st = "rejected" THEN GivenReasons ELSE {NoReason}

\* Weekly availability rows (consultant_availabilities), read only here.
availabilities ==
    { [consultant_id |-> 1, day_of_week |-> 0, start_time |-> 0, end_time |-> 1],
      [consultant_id |-> 1, day_of_week |-> 1, start_time |-> 0, end_time |-> 1],
      [consultant_id |-> 2, day_of_week |-> 0, start_time |-> 0, end_time |-> 1] }

weekday(d) == (d - 1) % 7
time(d) == 1

VARIABLES bookings, now, pc, req, resp, workers

\* The availability calculator: the rows it reads for one consultant and one
\* date, and the locals of the call in progress.
VARIABLES day_availabilities, day_bookings, fn, at, k, current_time,
          available_times, slots, passed

\* The consultant's bookings on every other date, each at its time of day.
VARIABLES other_date_bookings

bookingVars == <<bookings, now, pc, req, resp, workers>>

calcVars == <<day_availabilities, day_bookings, other_date_bookings, fn, at, k,
              current_time, available_times, slots, passed>>

\* The stress scores: the answers given to calculate_pss_score and what it
\* returned; the task durations (minutes, 0 for none) read by
\* calculate_workload_stress and the locals of its call.
VARIABLES answers, pss, tasks, task_index, total_hours_worked,
          raw_workload_score

\* The other columns of the tasks (priority, status, whether the due date has
\* passed), the counters of the loop over them, the workload details and the
\* final score and level.
VARIABLES task_flags, high_priority_tasks, overdue_tasks, pending_tasks,
          workload_details, final

detailVars == <<task_flags, high_priority_tasks, overdue_tasks, pending_tasks,
                workload_details, final>>

scoreVars == <<answers, pss, tasks, task_index, total_hours_worked,
               raw_workload_score, detailVars>>

\* The stress_scores table, the submit-assessment call of each worker
\* process between its lookup and its write, what it answered, and the
\* team-scores response being returned.
VARIABLES stress_scores, submit_pc, submit_req, submit_resp, team_view

recordVars == <<stress_scores, submit_pc, submit_req, submit_resp, team_view>>

vars == <<bookingVars, calcVars, scoreVars, recordVars>>

\* ------------------------------------------------------------ data model
ConsultantBooking(c, d) ==
    [consultant_id |-> c, booking_date |-> d, status |-> "pending",
     rejection_reason |-> NoReason]

Ids == 1 .. Len(bookings)

\* The frame of a handler in progress: its arguments and local variables.
NoReq == [op |-> "none", consultant_id |-> 0, booking_date |-> 0, booking_id |-> 0,
          status |-> "", reason |-> NoReason,
          conflicting_bookings |-> {}, remaining |-> {}, cancelled_count |-> 0]

\* The response of the last request: booking_id is the id of a created row.
NoResp == [code |-> "none", booking_id |-> 0, cancelled_conflicts |-> 0]

Failure(code) == [NoResp EXCEPT !.code = code]
Ok == [NoResp EXCEPT !.code = "ok"]
Created(b) == [NoResp EXCEPT !.code = "ok", !.booking_id = b]
\* {"message": "Session marked as completed", "booking_id": booking.id}
Completed(b) == [NoResp EXCEPT !.code = "ok", !.booking_id = b]

utcnow == now

\* ---------------------------------------------------------------- queries
ExistingBooking(c, d, statuses, except) ==
    { i \in Ids : /\ bookings[i].consultant_id = c
                  /\ bookings[i].booking_date = d
                  /\ bookings[i].status \in statuses
                  /\ i # except }

PsychiatristSlotTaken(c, d) == ExistingBooking(c, d, {"pending", "approved"}, 0) # {}

ConsultantSlotTaken(c, d, except) == ExistingBooking(c, d, {"pending"}, except) # {}

IsAvailable(c, d) ==
    \E a \in availabilities :
        /\ a.consultant_id = c
        /\ a.day_of_week = weekday(d)
        /\ a.start_time <= time(d)
        /\ a.end_time >= time(d)

\* The sweep's query without its booking_date filter.
ConflictingBookingsAnyDate(c, d, b) ==
    { i \in Ids : /\ bookings[i].consultant_id = c
                  /\ bookings[i].status = "pending"
                  /\ i # b }

\* The sweep's query without its status filter.
ConflictingBookingsAnyStatus(c, d, b) ==
    { i \in Ids : /\ bookings[i].consultant_id = c
                  /\ bookings[i].booking_date = d
                  /\ i # b }

ConflictingBookings(c, d, b) ==
    { i \in Ids : /\ bookings[i].consultant_id = c
                  /\ bookings[i].booking_date = d
                  /\ bookings[i].status = "pending"
                  /\ i # b }

\* The status guard letting an approved booking through again.
ApprovalAllowedTwice(bk) == bk.status \in {"pending", "approved"}

ApprovalAllowed(bk) == bk.status = "pending"

\* The completion guard letting a pending booking through as well.
CompletionAllowedEarly(bk) == bk.status \in {"pending", "approved"}

CompletionAllowed(bk) == bk.status = "approved"

\* ------------------------------------------------------------------ writes
SetStatus(b, st) == [bookings EXCEPT ![b].status = st]

CancelConflict(b) ==
    [bookings EXCEPT ![b].status = "cancelled", ![b].rejection_reason = AutoCancelReason]

\* The rejection writing the status but not the reason.
RejectBookingStatusOnly(b, reason) == [bookings EXCEPT ![b].status = "rejected"]

RejectBooking(b, reason) ==
    [bookings EXCEPT ![b].status = "rejected", ![b].rejection_reason = reason]

MoveBooking(b, c, d) ==
    [bookings EXCEPT ![b].consultant_id = c, ![b].booking_date = d]

\* ------------------------------------------------------------- life cycle
InitTable ==
    /\ bookings = <<>>
    /\ now = 0
    /\ pc = [p \in Procs |-> "idle"]
    /\ req = [p \in Procs |-> NoReq]
    /\ resp = [p \in Procs |-> NoResp]

\* No available-times call in progress and no rows for it to read.
NoCall ==
    /\ fn = "none"
    /\ at = "idle"
    /\ k = 0
    /\ current_time = 0
    /\ available_times = <<>>
    /\ slots = <<>>
    /\ passed = {}

CalcIdle ==
    /\ day_availabilities = <<>>
    /\ day_bookings = {}
    /\ other_date_bookings = {}
    /\ NoCall

\* A float (IEEE 754 binary64, as Python's) that is zero or lies between
\* 2^-6 and 2^15 is held exactly as five limbs of 15 bits, most significant
\* first: an integer part and 60 binary places.
LimbBase == 32768

MantissaBits == 53

FracBits == 60

FloatZero == <<0, 0, 0, 0, 0>>

\* No answers scored and no workload computed.
NoPss == [status_code |-> 0, total_score |-> 0, normalized_pss |-> 0]

NotScored == -1

NoDetails ==
    [done |-> FALSE, priority_stress |-> FloatZero,
     overdue_stress |-> FloatZero, pending_stress |-> FloatZero,
     total_workload_stress |-> FloatZero,
     normalized_workload_stress |-> FloatZero]

NoFinal == [level |-> "none", final_stress_score |-> FloatZero]

NoWorkload ==
    /\ task_index = 0
    /\ total_hours_worked = FloatZero
    /\ raw_workload_score = NotScored
    /\ high_priority_tasks = 0
    /\ overdue_tasks = 0
    /\ pending_tasks = 0
    /\ workload_details = NoDetails
    /\ final = NoFinal

ScoreIdle ==
    /\ answers = <<>>
    /\ pss = NoPss
    /\ tasks = <<>>
    /\ task_flags = <<>>
    /\ NoWorkload

\* No stress score stored and no stress request in progress.
NoSubmitReq ==
    [user |-> 0, assessment |-> 0, share_with_supervisor |-> "None",
     share_with_hr |-> "None", existing_score |-> 0]

NoSubmitResp == [message |-> "none", id |-> 0]

NoView == [viewer |-> 0, team_scores |-> <<>>]

NoSubmit ==
    /\ submit_pc = [p \in Procs |-> "idle"]
    /\ submit_req = [p \in Procs |-> NoSubmitReq]
    /\ submit_resp = [p \in Procs |-> NoSubmitResp]
    /\ team_view = NoView

RecordsIdle ==
    /\ stress_scores = <<>>
    /\ NoSubmit

Init == InitTable /\ workers = {1} /\ CalcIdle /\ ScoreIdle /\ RecordsIdle

InitConc ==
    InitTable /\ workers = Procs /\ CalcIdle /\ ScoreIdle /\ RecordsIdle

\* A worker process takes a request when it is idle.
CanBegin(p) ==
    /\ p \in workers
    /\ pc[p] = "idle"

Inserting == { q \in Procs : pc[q] = "insert" }

Capacity == IF workers = Procs THEN MaxConcBookings ELSE MaxBookings

RoomToInsert == Len(bookings) + Cardinality(Inserting) < Capacity

\* The handler returns (or raises) with `answer`; `r` is what is left of its frame.
Finish(p, r, answer) ==
    /\ pc' = [pc EXCEPT ![p] = "done"]
    /\ req' = [req EXCEPT ![p] = r]
    /\ resp' = [resp EXCEPT ![p] = answer]

Continue(p, r, label) ==
    /\ pc' = [pc EXCEPT ![p] = label]
    /\ req' = [req EXCEPT ![p] = r]
    /\ resp' = resp

Refuse(p, r, code) ==
    /\ Finish(p, r, Failure(code))
    /\ bookings' = bookings

Return(p) ==
    /\ pc[p] = "done"
    /\ pc' = [pc EXCEPT ![p] = "idle"]
    /\ req' = [req EXCEPT ![p] = NoReq]
    /\ resp' = [resp EXCEPT ![p] = NoResp]
    /\ UNCHANGED <<bookings, now, workers, calcVars, scoreVars, recordVars>>

Tick ==
    /\ now < MaxNow
    /\ now' = now + 1
    /\ UNCHANGED <<bookings, pc, req, resp, workers, calcVars, scoreVars, recordVars>>

\* ---------------------------------------------------------------- booking
\* db.add(booking); db.commit(); db.refresh(booking)
AddBooking(p, r, c, d) ==
    /\ bookings' = Append(bookings, ConsultantBooking(c, d))
    /\ Finish(p, r, Created(Len(bookings) + 1))

Insert(p) ==
    /\ pc[p] = "insert"
    /\ AddBooking(p, req[p], req[p].consultant_id, req[p].booking_date)
    /\ UNCHANGED <<now, workers, calcVars, scoreVars, recordVars>>

BookRequest(o, c, d) ==
    [NoReq EXCEPT !.op = o, !.consultant_id = c, !.booking_date = d]

BookPsychiatrist(p, c, d) ==
    /\ CanBegin(p)
    /\ RoomToInsert
    /\ LET r == [NoReq EXCEPT !.op = "book_psychiatrist"] IN
         IF d <= now THEN Refuse(p, r, "ValidationError")
         ELSE IF PsychiatristSlotTaken(c, d) THEN Refuse(p, r, "ConflictError")
         ELSE /\ Continue(p, BookRequest("book_psychiatrist", c, d), "insert")
              /\ bookings' = bookings
    /\ UNCHANGED <<now, workers, calcVars, scoreVars, recordVars>>

BookPsychiatristForEmployee(p, c, d) ==
    /\ CanBegin(p)
    /\ RoomToInsert
    /\ LET r == [NoReq EXCEPT !.op = "book_psychiatrist_for_employee"] IN
         IF PsychiatristSlotTaken(c, d) THEN Refuse(p, r, "ConflictError")
         ELSE /\ Continue(p, BookRequest("book_psychiatrist_for_employee", c, d), "insert")
              /\ bookings' = bookings
    /\ UNCHANGED <<now, workers, calcVars, scoreVars, recordVars>>

\* consultant.py book_consultation and book_for_employee
BookConsultation(p, c, d) ==
    /\ CanBegin(p)
    /\ RoomToInsert
    /\ IF d <= utcnow THEN Refuse(p, NoReq, "ValidationError")
       ELSE IF ~IsAvailable(c, d) THEN Refuse(p, NoReq, "NotAvailable")
       ELSE IF ConsultantSlotTaken(c, d, 0) THEN Refuse(p, NoReq, "ConflictError")
       ELSE AddBooking(p, NoReq, c, d)
    /\ UNCHANGED <<now, workers, calcVars, scoreVars, recordVars>>

HrBookConsultant(p, c, d) ==
    /\ CanBegin(p)
    /\ RoomToInsert
    /\ AddBooking(p, NoReq, c, d)
    /\ UNCHANGED <<now, workers, calcVars, scoreVars, recordVars>>

\* dashboard.py hr_book_psychiatrist, hr_book_for_employee and
\* hr_book_psychiatrist_for_employee
HrBookPsychiatrist(p, c, d) ==
    /\ CanBegin(p)
    /\ RoomToInsert
    /\ IF d <= now THEN Refuse(p, NoReq, "ValidationError")
       ELSE AddBooking(p, NoReq, c, d)
    /\ UNCHANGED <<now, workers, calcVars, scoreVars, recordVars>>

\* ------------------------------------------------------- approve / reject
ApproveRequest(b) == [NoReq EXCEPT !.op = "approve", !.booking_id = b]

ApproveBegin(p, c, b, st, reason) ==
    /\ CanBegin(p)
    /\ b \in Ids
    /\ LET r == ApproveRequest(b) IN
         IF bookings[b].consultant_id # c THEN Refuse(p, r, "NotFoundError")
         ELSE IF ~ApprovalAllowed(bookings[b]) THEN Refuse(p, r, "StateError")
         ELSE IF st = "approved"
           THEN LET found == ConflictingBookings(c, bookings[b].booking_date, b) IN
                /\ Continue(p, [r EXCEPT !.status = st,
                                         !.conflicting_bookings = found,
                                         !.remaining = found],
                            "sweep")
                /\ bookings' = bookings
         ELSE IF st = "rejected"
           THEN IF reason = NoReason
                  THEN Refuse(p, r, "ValidationError")
                  ELSE /\ Continue(p, [r EXCEPT !.status = st, !.reason = reason], "reject")
                       /\ bookings' = bookings
         ELSE Refuse(p, r, "ValidationError")
    /\ UNCHANGED <<now, workers, calcVars, scoreVars, recordVars>>

\* One pass of the loop over conflicting_bookings (the rows come back in no
\* stated order): the write is committed by notify_booking_cancelled.
ApproveSweep(p) ==
    /\ pc[p] = "sweep"
    /\ \E i \in req[p].remaining :
         /\ bookings' = CancelConflict(i)
         /\ req' = [req EXCEPT ![p].remaining = @ \ {i},
                               ![p].cancelled_count = @ + 1]
    /\ UNCHANGED <<now, pc, resp, workers, calcVars, scoreVars, recordVars>>

\* booking.status = approved, committed by notify_booking_approved.
ApproveCommit(p) ==
    /\ pc[p] = "sweep"
    /\ req[p].remaining = {}
    /\ bookings' = SetStatus(req[p].booking_id, "approved")
    /\ Finish(p, req[p], [Ok EXCEPT !.cancelled_conflicts = req[p].cancelled_count])
    /\ UNCHANGED <<now, workers, calcVars, scoreVars, recordVars>>

RejectCommit(p) ==
    /\ pc[p] = "reject"
    /\ bookings' = RejectBooking(req[p].booking_id, req[p].reason)
    /\ Finish(p, req[p], Ok)
    /\ UNCHANGED <<now, workers, calcVars, scoreVars, recordVars>>

\* ------------------------------------------------------------------ update
\* `owner` tells whether the caller is the booking's employee_id.
UpdatePsychiatristBooking(p, b, owner, d) ==
    /\ CanBegin(p)
    /\ b \in Ids
    /\ IF ~owner THEN Refuse(p, NoReq, "NotFoundError")
       ELSE IF bookings[b].status # "pending" THEN Refuse(p, NoReq, "StateError")
       ELSE /\ bookings' = MoveBooking(b, bookings[b].consultant_id, d)
            /\ Finish(p, NoReq, Ok)
    /\ UNCHANGED <<now, workers, calcVars, scoreVars, recordVars>>

UpdateBooking(p, b, owner, c, d) ==
    /\ CanBegin(p)
    /\ b \in Ids
    /\ IF ~owner THEN Refuse(p, NoReq, "NotFoundError")
       ELSE IF bookings[b].booking_date <= utcnow THEN Refuse(p, NoReq, "ValidationError")
       ELSE IF d <= utcnow THEN Refuse(p, NoReq, "ValidationError")
       ELSE IF ~IsAvailable(c, d) THEN Refuse(p, NoReq, "NotAvailable")
       ELSE IF ConsultantSlotTaken(c, d, b) THEN Refuse(p, NoReq, "ConflictError")
       ELSE /\ bookings' = MoveBooking(b, c, d)
            /\ Finish(p, NoReq, Ok)
    /\ UNCHANGED <<now, workers, calcVars, scoreVars, recordVars>>

\* ------------------------------------------------------ cancel / complete
CancelPsychiatristBooking(p, b, owner) ==
    /\ CanBegin(p)
    /\ b \in Ids
    /\ IF ~owner THEN Refuse(p, NoReq, "NotFoundError")
       ELSE IF bookings[b].status = "completed" THEN Refuse(p, NoReq, "StateError")
       ELSE /\ bookings' = SetStatus(b, "cancelled")
            /\ Finish(p, NoReq, Ok)
    /\ UNCHANGED <<now, workers, calcVars, scoreVars, recordVars>>

CancelBooking(p, b, owner) ==
    /\ CanBegin(p)
    /\ b \in Ids
    /\ IF ~owner THEN Refuse(p, NoReq, "NotFoundError")
       ELSE IF bookings[b].booking_date <= utcnow THEN Refuse(p, NoReq, "ValidationError")
       ELSE /\ bookings' = SetStatus(b, "cancelled")
            /\ Finish(p, NoReq, Ok)
    /\ UNCHANGED <<now, workers, calcVars, scoreVars, recordVars>>

CompleteSession(p, c, b) ==
    /\ CanBegin(p)
    /\ b \in Ids
    /\ IF bookings[b].consultant_id # c THEN Refuse(p, NoReq, "NotFoundError")
       ELSE IF ~CompletionAllowed(bookings[b]) THEN Refuse(p, NoReq, "StateError")
       ELSE /\ bookings' = SetStatus(b, "completed")
            /\ Finish(p, NoReq, Completed(b))
    /\ UNCHANGED <<now, workers, calcVars, scoreVars, recordVars>>

\* ---------------------------------------------------- failing notifications
\* NotificationService.create_notification adds the notification row and
\* commits the handler's session.  When that commit raises, the transaction
\* is rolled back together with the booking write that was flushed with it,
\* the handler's `except Exception` prints the error, and the session refuses
\* further work until rollback(): what the handler does next (loading an
\* expired attribute, the final db.commit()) raises and the request ends as
\* a server error.  `committed` tells whether an earlier notification of the
\* same write (the employee's, before the booker's) had committed it.
ServerError == Failure("InternalError")

\* book_psychiatrist: the booking is committed before notify_booking_created.
InsertNotifyFailure(p) ==
    /\ pc[p] = "insert"
    /\ bookings' = Append(bookings, ConsultantBooking(req[p].consultant_id, req[p].booking_date))
    /\ Finish(p, req[p], ServerError)
    /\ UNCHANGED <<now, workers, calcVars, scoreVars, recordVars>>

ApproveSweepNotifyFailure(p, committed) ==
    /\ pc[p] = "sweep"
    /\ \E i \in req[p].remaining :
         bookings' = IF committed THEN CancelConflict(i) ELSE bookings
    /\ Finish(p, req[p], ServerError)
    /\ UNCHANGED <<now, workers, calcVars, scoreVars, recordVars>>

ApproveCommitNotifyFailure(p, committed) ==
    /\ pc[p] = "sweep"
    /\ req[p].remaining = {}
    /\ bookings' = IF committed THEN SetStatus(req[p].booking_id, "approved") ELSE bookings
    /\ Finish(p, req[p], ServerError)
    /\ UNCHANGED <<now, workers, calcVars, scoreVars, recordVars>>

RejectCommitNotifyFailure(p, committed) ==
    /\ pc[p] = "reject"
    /\ bookings' = IF committed THEN RejectBooking(req[p].booking_id, req[p].reason)
                                ELSE bookings
    /\ Finish(p, req[p], ServerError)
    /\ UNCHANGED <<now, workers, calcVars, scoreVars, recordVars>>

\* complete_session: the status is committed before notify_session_completed.
CompleteSessionNotifyFailure(p, c, b) ==
    /\ CanBegin(p)
    /\ b \in Ids
    /\ bookings[b].consultant_id = c
    /\ CompletionAllowed(bookings[b])
    /\ bookings' = SetStatus(b, "completed")
    /\ Finish(p, NoReq, ServerError)
    /\ UNCHANGED <<now, workers, calcVars, scoreVars, recordVars>>

\* -------------------------------------------------- availability calculator
\* Times of day and instants of the requested date are minutes after its
\* midnight.  day_availabilities holds the consultant's rows for the date's
\* weekday with is_available set, in the order the query returns them;
\* day_bookings holds the consultant's bookings on that date.
MinutesPerDay == 1440
session_duration == 30

\* datetime.time() and strftime('%H:%M'): the time of day of an instant.
TimeOfDay(m) == m % MinutesPerDay

Window(s, e) == [start_time |-> s, end_time |-> e]

\* 08:00-08:30, 09:00-09:45, 09:30-10:30, 23:00-23:45
WindowChoices ==
    { Window(480, 510), Window(540, 585), Window(570, 630), Window(1380, 1425) }

\* 09:00, 09:15
BookingTimes == {540, 555}
Durations == {30, 60}

DayBooking(t, d, st) == [time |-> t, duration_minutes |-> d, status |-> st]

BookingChoices ==
    { DayBooking(t, d, st) : t \in BookingTimes, d \in Durations,
                             st \in {"pending", "approved", "completed", "cancelled"} }

SeqsUpTo(S, n) == UNION { [1 .. m -> S] : m \in 0 .. n }

RECURSIVE SetsUpTo(_, _)
SetsUpTo(S, n) ==
    IF n = 0 THEN {{}}
    ELSE LET smaller == SetsUpTo(S, n - 1)
         IN  smaller \cup { A \cup {x} : A \in smaller, x \in S }

InitSlots ==
    /\ InitTable
    /\ workers = {1}
    /\ day_availabilities \in SeqsUpTo(WindowChoices, MaxWindows)
    /\ day_bookings \in SetsUpTo(BookingChoices, MaxStoredBookings)
    /\ other_date_bookings = {}
    /\ NoCall
    /\ ScoreIdle
    /\ RecordsIdle

Slot(s, e) == [start_time |-> TimeOfDay(s), end_time |-> TimeOfDay(e)]

\* dashboard.py hr_book_consultant: the row is inserted as requested.
CreateBooking(t, d) ==
    /\ at = "idle"
    /\ Cardinality(day_bookings) < MaxDayBookings
    /\ day_bookings' = day_bookings \cup {DayBooking(t, d, "pending")}
    /\ UNCHANGED <<day_availabilities, other_date_bookings, fn, at, k, current_time,
                   available_times, slots, passed>>
    /\ UNCHANGED <<bookingVars, scoreVars, recordVars>>

\* The same insert for another date.
CreateBookingOtherDate(t, d) ==
    /\ at = "idle"
    /\ Cardinality(other_date_bookings) < MaxOtherDateBookings
    /\ other_date_bookings' = other_date_bookings \cup {DayBooking(t, d, "pending")}
    /\ UNCHANGED <<day_availabilities, day_bookings, fn, at, k, current_time,
                   available_times, slots, passed>>
    /\ UNCHANGED <<bookingVars, scoreVars, recordVars>>

\* The call starts its loop over the rows, or returns at once without rows.
Enter(f, rows) ==
    /\ at = "idle"
    /\ fn' = f
    /\ available_times' = <<>>
    /\ slots' = <<>>
    /\ passed' = {}
    /\ IF rows = <<>>
         THEN at' = "returned" /\ k' = 0 /\ current_time' = 0
         ELSE at' = "loop" /\ k' = 1 /\ current_time' = rows[1].start_time
    /\ UNCHANGED <<day_availabilities, day_bookings, other_date_bookings>>
    /\ UNCHANGED <<bookingVars, scoreVars, recordVars>>

\* The while loop of row k is over: on to the next row, or return.
NextRow(rows) ==
    /\ passed' = {}
    /\ IF k < Len(rows)
         THEN at' = "loop" /\ k' = k + 1 /\ current_time' = rows[k + 1].start_time
         ELSE at' = "returned" /\ k' = k /\ current_time' = current_time

\* A loop standing where it has stood before is not followed further.
Iterating(f) ==
    /\ fn = f
    /\ at = "loop"
    /\ current_time \notin passed

\* hr_consultants.py get_consultant_available_times
\* The bookings query reading the approved bookings instead of the pending.
existing_approved_bookings == { b \in day_bookings : b.status = "approved" }

existing_bookings == { b \in day_bookings : b.status = "pending" }

Conflict(slot_start, slot_end) ==
    \E b \in existing_bookings :
        /\ slot_start < b.time + b.duration_minutes
        /\ slot_end > b.time

ConsultantTimesBegin == Enter("get_consultant_available_times", day_availabilities)

ConsultantTimesStep ==
    /\ Iterating("get_consultant_available_times")
    /\ LET slot_start == current_time
           slot_end == current_time + session_duration
       IN  IF slot_end <= day_availabilities[k].end_time
             THEN /\ available_times' =
                        IF Conflict(slot_start, slot_end) THEN available_times
                        ELSE Append(available_times, Slot(slot_start, slot_end))
                  /\ current_time' = current_time + session_duration
                  /\ passed' = passed \cup {current_time}
                  /\ UNCHANGED <<at, k>>
             ELSE /\ NextRow(day_availabilities)
                  /\ UNCHANGED available_times
    /\ UNCHANGED <<day_availabilities, day_bookings, other_date_bookings, fn, slots>>
    /\ UNCHANGED <<bookingVars, scoreVars, recordVars>>

\* hr_psychiatrists.py get_psychiatrist_available_times
RECURSIVE BookedFrom(_, _)
BookedFrom(t, end_time) ==
    IF t < end_time
      THEN {t} \cup BookedFrom(TimeOfDay(t + 30), end_time)
      ELSE {}

booked_slots ==
    UNION { BookedFrom(b.time, TimeOfDay(b.time + b.duration_minutes)) :
              b \in { x \in day_bookings : x.status \in {"pending", "approved"} } }

PsychiatristTimesBegin == Enter("get_psychiatrist_available_times", day_availabilities)

\* The result lists start times only; each stands for a 30-minute session.
PsychiatristTimesStep ==
    /\ Iterating("get_psychiatrist_available_times")
    /\ IF current_time < day_availabilities[k].end_time
         THEN /\ available_times' =
                    IF current_time \in booked_slots THEN available_times
                    ELSE Append(available_times,
                                Slot(current_time, current_time + session_duration))
              /\ current_time' = TimeOfDay(current_time + session_duration)
              /\ passed' = passed \cup {current_time}
              /\ UNCHANGED <<at, k>>
         ELSE /\ NextRow(day_availabilities)
              /\ UNCHANGED available_times
    /\ UNCHANGED <<day_availabilities, day_bookings, other_date_bookings, fn, slots>>
    /\ UNCHANGED <<bookingVars, scoreVars, recordVars>>

\* psychiatrist.py get_psychiatrist_timetable: the first row only.
availability ==
    IF day_availabilities = <<>> THEN <<>> ELSE <<day_availabilities[1]>>

all_bookings == { b \in day_bookings : b.status \in {"pending", "approved", "completed"} }

\* The query of each slot: it compares the time of day only.
existing_booking(t) ==
    { b \in day_bookings \cup other_date_bookings :
        /\ TimeOfDay(b.time) = t
        /\ b.status \in {"pending", "approved", "completed"} }

TimetableSlot(s, e, free) ==
    [start_time |-> s, end_time |-> e, available |-> free]

RECURSIVE SortedByStart(_)
SortedByStart(sq) ==
    IF sq = <<>> THEN <<>>
    ELSE LET first == CHOOSE i \in 1 .. Len(sq) :
                        /\ \A j \in 1 .. Len(sq) : sq[i].start_time <= sq[j].start_time
                        /\ \A j \in 1 .. (i - 1) : sq[j].start_time # sq[i].start_time
             rest == [j \in 1 .. (Len(sq) - 1) |-> IF j < first THEN sq[j] ELSE sq[j + 1]]
         IN  <<sq[first]>> \o SortedByStart(rest)

RECURSIVE WithOutsideBookings(_, _)
WithOutsideBookings(sq, bs) ==
    IF bs = {} THEN sq
    ELSE LET b == CHOOSE x \in bs : TRUE
             t == TimeOfDay(b.time)
         IN  WithOutsideBookings(
               IF \E i \in 1 .. Len(sq) : sq[i].start_time = t THEN sq
               ELSE Append(sq, TimetableSlot(t, TimeOfDay(t + 30), FALSE)),
               bs \ {b})

TimetableBegin ==
    /\ availability # <<>>
    /\ Enter("get_psychiatrist_timetable", availability)

\* Without a row the loop is skipped: the booked slots alone are returned.
TimetableWithoutAvailability ==
    /\ at = "idle"
    /\ availability = <<>>
    /\ fn' = "get_psychiatrist_timetable"
    /\ at' = "returned"
    /\ slots' = SortedByStart(WithOutsideBookings(<<>>, all_bookings))
    /\ UNCHANGED <<day_availabilities, day_bookings, other_date_bookings, k, current_time, available_times, passed>>
    /\ UNCHANGED <<bookingVars, scoreVars, recordVars>>

TimetableStep ==
    /\ Iterating("get_psychiatrist_timetable")
    /\ LET end_time == availability[1].end_time
           slot_end == TimeOfDay(current_time + 30)
       IN  IF current_time < end_time /\ ~(slot_end > end_time)
             THEN /\ slots' = Append(slots, TimetableSlot(current_time, slot_end,
                                                         existing_booking(current_time) = {}))
                  /\ current_time' = slot_end
                  /\ passed' = passed \cup {current_time}
                  /\ UNCHANGED <<at, k>>
             ELSE /\ slots' = SortedByStart(WithOutsideBookings(slots, all_bookings))
                  /\ at' = "returned"
                  /\ UNCHANGED <<k, current_time, passed>>
    /\ UNCHANGED <<day_availabilities, day_bookings, other_date_bookings, fn, available_times>>
    /\ UNCHANGED <<bookingVars, scoreVars, recordVars>>

\* The response is sent; the rows stay as they are.
CalcReturn ==
    /\ at = "returned"
    /\ fn' = "none"
    /\ at' = "idle"
    /\ k' = 0
    /\ current_time' = 0
    /\ available_times' = <<>>
    /\ slots' = <<>>
    /\ passed' = {}
    /\ UNCHANGED <<day_availabilities, day_bookings, other_date_bookings>>
    /\ UNCHANGED <<bookingVars, scoreVars, recordVars>>

\* ----------------------------------------------------------- stress scores
\* Python floats: every operation gives the float nearest the exact result,
\* a tie going to the even mantissa.
BitLen(v) ==
    IF v = 0 THEN 0 ELSE 1 + CHOOSE n \in 0..30 : 2^n <= v /\ v \div 2 < 2^n

Carry(x) ==
    LET l5 == x[5]
        l4 == x[4] + l5 \div LimbBase
        l3 == x[3] + l4 \div LimbBase
        l2 == x[2] + l3 \div LimbBase
        l1 == x[1] + l2 \div LimbBase
    IN  <<l1, l2 % LimbBase, l3 % LimbBase, l4 % LimbBase, l5 % LimbBase>>

\* The power of two of the leading bit.
Exponent(x) == IF x[1] > 0 THEN BitLen(x[1]) - 1 ELSE BitLen(x[2]) - 16

\* x rounded to MantissaBits significant bits; sticky says that the exact
\* value exceeds x by less than one unit of x's last place.
RoundToFloat(x, sticky) ==
    IF x = FloatZero THEN x
    ELSE LET s       == Exponent(x) + 1 + FracBits - MantissaBits
             unit    == 2^s
             low     == x[4] * LimbBase + x[5]
             dropped == low % unit
             kept    == low - dropped
             odd     == (kept \div unit) % 2 = 1
             up      == \/ 2 * dropped > unit
                        \/ 2 * dropped = unit /\ (sticky \/ odd)
             rounded == kept + (IF up THEN unit ELSE 0)
         IN  Carry(<<x[1], x[2], x[3], rounded \div LimbBase,
                     rounded % LimbBase>>)

\* n / d of two ints, and the float a decimal literal n/d denotes.
TrueDiv(n, d) ==
    LET r0 == n % d
        r1 == (r0 * LimbBase) % d
        r2 == (r1 * LimbBase) % d
        r3 == (r2 * LimbBase) % d
        r4 == (r3 * LimbBase) % d
    IN  RoundToFloat(<<n \div d, (r0 * LimbBase) \div d,
                       (r1 * LimbBase) \div d, (r2 * LimbBase) \div d,
                       (r3 * LimbBase) \div d>>, r4 # 0)

FloatAdd(a, b) == RoundToFloat(Carry([i \in 1..5 |-> a[i] + b[i]]), FALSE)

FloatLess(a, b) ==
    \E i \in 1..5 : a[i] < b[i] /\ \A j \in 1..(i - 1) : a[j] = b[j]

FloatLeq(a, b) == ~FloatLess(b, a)

\* A literal written with two decimals, given in hundredths: 7.22 is
\* Hundredths(722).
Hundredths(n) == TrueDiv(n, 100)

\* calculate_pss_score
NumQuestions == 10

MaxAnswer == 4

\* The reversed positions with the first answer numbered one: the indices
\* the code means are numbered from zero.
positive_questions_from_one == {4, 5, 7, 8}

positive_questions == {3, 4, 6, 7}

\* The loop over enumerate(answers), up to and including index n - 1.
RECURSIVE total_score(_, _)
total_score(a, n) ==
    IF n = 0 THEN 0
    ELSE total_score(a, n - 1)
           + (IF (n - 1) \in positive_questions THEN 4 - a[n] ELSE a[n])

BadRequest == [status_code |-> 400, total_score |-> 0, normalized_pss |-> 0]

\* normalized_pss is held in hundredths: (total_score / 40) * 10 is a
\* multiple of 0.25, which the floats hold exactly.
calculate_pss_score(a) ==
    IF Len(a) # NumQuestions THEN BadRequest
    ELSE IF \E i \in 1..Len(a) : ~(0 <= a[i] /\ a[i] <= MaxAnswer) THEN BadRequest
    ELSE [status_code |-> 200,
          total_score |-> total_score(a, Len(a)),
          normalized_pss |-> (total_score(a, Len(a)) * 100 * 10) \div 40]

\* Answer lists: every list of NumQuestions answers that are 0 or 4, the same
\* with one answer replaced, with the last answer left out and with one more.
ExtremeAnswers == [1..NumQuestions -> {0, MaxAnswer}]

OtherAnswers == {-1, 1, 2, 3, MaxAnswer + 1}

AnswerLists ==
    ExtremeAnswers
      \cup { [a EXCEPT ![i] = v] :
               a \in ExtremeAnswers, i \in 1..NumQuestions, v \in OtherAnswers }
      \cup { SubSeq(a, 1, NumQuestions - 1) : a \in ExtremeAnswers }
      \cup { Append(a, 0) : a \in ExtremeAnswers }

InitPss ==
    /\ InitTable
    /\ workers = {1}
    /\ CalcIdle
    /\ answers \in AnswerLists
    /\ pss = NoPss
    /\ tasks = <<>>
    /\ task_flags = <<>>
    /\ NoWorkload
    /\ RecordsIdle

CalculatePssScore ==
    /\ pss = NoPss
    /\ pss' = calculate_pss_score(answers)
    /\ UNCHANGED <<answers, tasks, task_index, total_hours_worked,
                   raw_workload_score, detailVars>>
    /\ UNCHANGED <<bookingVars, calcVars, recordVars>>

\* priority, status and due_date < now of a task.
TaskFlags(priority, status, overdue) ==
    [priority |-> priority, status |-> status, overdue |-> overdue]

\* calculate_workload_stress: the hours worked and the base score.
TaskDurations == {0, 108, 139, 293, 433, 434, 540, 541, 720}

InitWorkload ==
    /\ InitTable
    /\ workers = {1}
    /\ CalcIdle
    /\ answers = <<>>
    /\ pss = NoPss
    /\ tasks \in SeqsUpTo(TaskDurations, MaxTasks)
    /\ task_flags = [i \in 1..Len(tasks) |-> TaskFlags("medium", "completed", FALSE)]
    /\ NoWorkload
    /\ RecordsIdle

\* One turn of `for task in tasks`.
WorkloadTask ==
    /\ raw_workload_score = NotScored
    /\ task_index < Len(tasks)
    /\ task_index' = task_index + 1
    /\ total_hours_worked' =
         IF tasks[task_index + 1] # 0
         THEN FloatAdd(total_hours_worked, TrueDiv(tasks[task_index + 1], 60))
         ELSE total_hours_worked
    /\ LET task == task_flags[task_index + 1]
       IN  /\ high_priority_tasks' =
                 high_priority_tasks + (IF task.priority = "high" THEN 1 ELSE 0)
           /\ pending_tasks' =
                 pending_tasks + (IF task.status = "pending" THEN 1 ELSE 0)
           /\ overdue_tasks' =
                 overdue_tasks
                   + (IF task.overdue /\ task.status = "pending" THEN 1 ELSE 0)
    /\ UNCHANGED <<answers, pss, tasks, raw_workload_score, task_flags,
                   workload_details, final>>
    /\ UNCHANGED <<bookingVars, calcVars, recordVars>>

\* The base score in tenths.
BaseScore(hours) ==
    IF FloatLess(hours, Hundredths(722)) THEN 0
    ELSE IF FloatLeq(Hundredths(723), hours) /\ FloatLeq(hours, Hundredths(900))
    THEN 5
    ELSE IF FloatLeq(Hundredths(901), hours) /\ FloatLeq(hours, Hundredths(1199))
    THEN 10
    ELSE 20

WorkloadBaseScore ==
    /\ raw_workload_score = NotScored
    /\ task_index = Len(tasks)
    /\ raw_workload_score' = BaseScore(total_hours_worked)
    /\ UNCHANGED <<answers, pss, tasks, task_index, total_hours_worked,
                   detailVars>>
    /\ UNCHANGED <<bookingVars, calcVars, recordVars>>

\* The additional stress factors, the capped total and its normalisation.
FromInt(n) == <<n, 0, 0, 0, 0>>

Tenths(n) == TrueDiv(n, 10)

RECURSIVE CarryFrom(_, _, _)
CarryFrom(x, i, c) ==
    IF i = 1 THEN <<x[1] + c>>
    ELSE Append(CarryFrom(x, i - 1, (x[i] + c) \div LimbBase),
                (x[i] + c) % LimbBase)

\* a times the limb b[j], which stands j - 1 limbs below the integer limb.
Row(a, b, j) ==
    [n \in 1..9 |-> IF n - j + 1 \in 1..5 THEN a[n - j + 1] * b[j] ELSE 0]

RECURSIVE Product(_, _, _)
Product(a, b, j) ==
    IF j = 0 THEN [n \in 1..9 |-> 0]
    ELSE LET below == Product(a, b, j - 1)
             row   == Row(a, b, j)
         IN  CarryFrom([n \in 1..9 |-> below[n] + row[n]], 9, 0)

FloatMul(a, b) ==
    LET exact == Product(a, b, 5)
    IN  RoundToFloat(SubSeq(exact, 1, 5), \E n \in 6..9 : exact[n] # 0)

FloatMin(a, b) == IF FloatLess(b, a) THEN b ELSE a

\* min(count * weight, cap)
Capped(count, weight, cap) ==
    CHOOSE r \in { FloatMin(m, cap) :
                     m \in {FloatMul(FromInt(count), weight)} } : TRUE

\* The sum of the base score and the three factors, left to right, without
\* the cap.
TotalUncapped(base, p, o, q) ==
    CHOOSE r \in { FloatAdd(s2, q) :
                     s2 \in { FloatAdd(s1, o) :
                               s1 \in {FloatAdd(base, p)} } } : TRUE

Total(base, p, o, q) ==
    CHOOSE r \in { FloatMin(s3, FromInt(2)) :
                     s3 \in { FloatAdd(s2, q) :
                               s2 \in { FloatAdd(s1, o) :
                                         s1 \in {FloatAdd(base, p)} } } } : TRUE

\* (total / 2.0) * 10; the division by 2.0 is the exact product with 0.5.
Normalized(total) ==
    CHOOSE r \in { FloatMul(h, FromInt(10)) :
                     h \in {FloatMul(total, TrueDiv(1, 2))} } : TRUE

WorkloadPenalties ==
    /\ raw_workload_score # NotScored
    /\ ~workload_details.done
    /\ \E priority_stress \in {Capped(high_priority_tasks, Tenths(1), Tenths(5))},
          overdue_stress \in {Capped(overdue_tasks, Tenths(2), Tenths(5))},
          pending_stress \in {Capped(pending_tasks, Hundredths(5), Tenths(3))} :
         \E total_workload_stress \in
                {Total(Tenths(raw_workload_score), priority_stress,
                       overdue_stress, pending_stress)} :
            workload_details' =
                [done |-> TRUE,
                 priority_stress |-> priority_stress,
                 overdue_stress |-> overdue_stress,
                 pending_stress |-> pending_stress,
                 total_workload_stress |-> total_workload_stress,
                 normalized_workload_stress |-> Normalized(total_workload_stress)]
    /\ UNCHANGED <<answers, pss, tasks, task_index, total_hours_worked,
                   raw_workload_score, task_flags, high_priority_tasks,
                   overdue_tasks, pending_tasks, final>>
    /\ UNCHANGED <<bookingVars, calcVars, recordVars>>

\* calculate_final_stress_score
\* (total_score / 40) * 10 as the float handed on by calculate_pss_score.
NormalizedPss(total) ==
    CHOOSE r \in { FloatMul(d, FromInt(10)) : d \in {TrueDiv(total, 40)} } : TRUE

FinalScore(normalized_pss, normalized_workload) ==
    CHOOSE r \in { FloatAdd(a, b) :
                     a \in {FloatMul(normalized_pss, Tenths(7))},
                     b \in {FloatMul(normalized_workload, Tenths(3))} } : TRUE

\* The thresholds read as strict bounds.
LevelStrict(final_stress_score) ==
    IF FloatLess(final_stress_score, FromInt(3)) THEN "low"
    ELSE IF FloatLess(final_stress_score, FromInt(6)) THEN "moderate"
    ELSE IF FloatLess(final_stress_score, Tenths(85)) THEN "high"
    ELSE "critical"

Level(final_stress_score) ==
    IF FloatLeq(final_stress_score, FromInt(3)) THEN "low"
    ELSE IF FloatLeq(final_stress_score, FromInt(6)) THEN "moderate"
    ELSE IF FloatLeq(final_stress_score, Tenths(85)) THEN "high"
    ELSE "critical"

CalculateFinalStressScore ==
    /\ pss.status_code = 200
    /\ workload_details.done
    /\ final = NoFinal
    /\ \E normalized_pss \in {NormalizedPss(pss.total_score)} :
         \E final_stress_score \in
                {FinalScore(normalized_pss,
                            workload_details.normalized_workload_stress)} :
            final' = [level |-> Level(final_stress_score),
                      final_stress_score |-> final_stress_score]
    /\ UNCHANGED <<answers, pss, tasks, task_index, total_hours_worked,
                   raw_workload_score, task_flags, high_priority_tasks,
                   overdue_tasks, pending_tasks, workload_details>>
    /\ UNCHANGED <<bookingVars, calcVars, recordVars>>

\* The answer lists of the assessments: the first n answers at their most
\* stressed value and the others at their least, total_score 4 * n.
StressAnswers ==
    { [i \in 1..NumQuestions |->
         IF (i <= n) = ((i - 1) \in positive_questions) THEN 0 ELSE MaxAnswer] :
      n \in {0, 2, 4, 6, 8, 10} }

\* The tasks of the assessments: MaxStressTasks tasks, the first h of high
\* priority, the first p pending and either all or none of those overdue;
\* the first task has the duration d and the others have none.
StressTasks ==
    { [durations |-> [i \in 1..MaxStressTasks |-> IF i = 1 THEN d ELSE 0],
       flags |-> [i \in 1..MaxStressTasks |->
                    TaskFlags(IF i <= h THEN "high" ELSE "medium",
                              IF i <= p THEN "pending" ELSE "completed",
                              late)]] :
      d \in {0, 434, 541, 720}, h \in 0..MaxStressTasks,
      p \in 0..MaxStressTasks, late \in BOOLEAN }

InitStress ==
    /\ InitTable
    /\ workers = {1}
    /\ CalcIdle
    /\ answers \in StressAnswers
    /\ pss = NoPss
    /\ \E t \in StressTasks : tasks = t.durations /\ task_flags = t.flags
    /\ NoWorkload
    /\ RecordsIdle

\* ------------------------------------------------------------ stress records
\* Two employees of different teams, the supervisor of the first one's team
\* and an HR manager.
Users == {1, 2, 3, 4}

role(u) ==
    IF u \in {1, 2} THEN "employee" ELSE IF u = 3 THEN "supervisor" ELSE "hr_manager"

team_id(u) == IF u \in {1, 3} THEN 1 ELSE IF u = 2 THEN 2 ELSE 0

\* What one submission computes (score, level, pss_score, normalized_pss,
\* workload_stress_score, total_hours_worked), as one value.
Assessments == {1, 2}

Flags == {"True", "False"}

OptionalFlags == {"True", "False", "None"}

\* query(StressScore).filter(employee_id == u).first(): the position of the
\* row, 0 for none.
FirstRow(table, u) ==
    IF \E i \in 1..Len(table) : table[i].employee_id = u
    THEN CHOOSE i \in 1..Len(table) :
             /\ table[i].employee_id = u
             /\ \A j \in 1..(i - 1) : table[j].employee_id # u
    ELSE 0

\* The lookup finding nothing, whatever the table holds.
existing_score_none(u) == 0

existing_score(u) ==
    IF FirstRow(stress_scores, u) = 0 THEN 0
    ELSE stress_scores[FirstRow(stress_scores, u)].id

\* The sharing flags as the handlers force them for the caller's role.
ForcedSupervisorFlag(u, flag) ==
    IF role(u) \in {"supervisor", "hr_manager"} THEN "False" ELSE flag

ForcedHrFlag(u, flag) == IF role(u) = "hr_manager" THEN "False" ELSE flag

Quiet == \A p \in Procs : submit_pc[p] = "idle"

InsertingScores == { p \in Procs : submit_pc[p] = "insert" }

\* submit_stress_assessment up to the lookup of the caller's record.
SubmitLookup(p, u, a, ss, sh) ==
    /\ p \in workers
    /\ submit_pc[p] = "idle"
    /\ team_view = NoView
    /\ Len(stress_scores) + Cardinality(InsertingScores) < MaxScoreRows
    /\ submit_req' = [submit_req EXCEPT ![p] =
                         [user |-> u, assessment |-> a,
                          share_with_supervisor |-> ForcedSupervisorFlag(u, ss),
                          share_with_hr |-> ForcedHrFlag(u, sh),
                          existing_score |-> existing_score(u)]]
    /\ submit_pc' = [submit_pc EXCEPT ![p] =
                        IF existing_score(u) # 0 THEN "update" ELSE "insert"]
    /\ submit_resp' = [submit_resp EXCEPT ![p] = NoSubmitResp]
    /\ UNCHANGED <<stress_scores, team_view>>
    /\ UNCHANGED <<bookingVars, calcVars, scoreVars>>

\* The write and commit: the record found is overwritten, or a new one added.
SubmitWrite(p) ==
    /\ submit_pc[p] \in {"update", "insert"}
    /\ LET r == submit_req[p]
       IN  IF submit_pc[p] = "update"
           THEN /\ stress_scores' =
                      [i \in 1..Len(stress_scores) |->
                         IF stress_scores[i].id = r.existing_score
                         THEN [stress_scores[i] EXCEPT
                                 !.assessment = r.assessment,
                                 !.share_with_supervisor = r.share_with_supervisor,
                                 !.share_with_hr = r.share_with_hr]
                         ELSE stress_scores[i]]
                /\ submit_resp' = [submit_resp EXCEPT ![p] =
                       [message |-> "Stress assessment updated successfully",
                        id |-> r.existing_score]]
           ELSE /\ stress_scores' =
                      Append(stress_scores,
                             [id |-> Len(stress_scores) + 1,
                              employee_id |-> r.user,
                              assessment |-> r.assessment,
                              share_with_supervisor |-> r.share_with_supervisor,
                              share_with_hr |-> r.share_with_hr])
                /\ submit_resp' = [submit_resp EXCEPT ![p] =
                       [message |-> "Stress assessment submitted successfully",
                        id |-> Len(stress_scores) + 1]]
    /\ submit_pc' = [submit_pc EXCEPT ![p] = "idle"]
    /\ submit_req' = [submit_req EXCEPT ![p] = NoSubmitReq]
    /\ UNCHANGED team_view
    /\ UNCHANGED <<bookingVars, calcVars, scoreVars>>

\* update_sharing_preferences of a caller who has a record.
UpdateSharing(u, ss, sh) ==
    /\ Quiet
    /\ team_view = NoView
    /\ FirstRow(stress_scores, u) # 0
    /\ stress_scores' =
           [stress_scores EXCEPT
              ![FirstRow(stress_scores, u)].share_with_supervisor =
                  ForcedSupervisorFlag(u, ss),
              ![FirstRow(stress_scores, u)].share_with_hr = ForcedHrFlag(u, sh)]
    /\ UNCHANGED <<submit_pc, submit_req, submit_resp, team_view>>
    /\ UNCHANGED <<bookingVars, calcVars, scoreVars>>

\* The team members a supervisor or an HR manager is shown, in id order.
team_members(viewer) ==
    { m \in Users :
        /\ role(m) = "employee"
        /\ role(viewer) = "supervisor" => team_id(m) = team_id(viewer) }

\* The sharing check reading no flag.
can_view_always(viewer, row) == TRUE

can_view(viewer, row) ==
    IF role(viewer) = "supervisor" THEN row.share_with_supervisor = "True"
    ELSE IF role(viewer) = "hr_manager" THEN row.share_with_hr = "True"
    ELSE FALSE

RECURSIVE ScoresFrom(_, _, _)
ScoresFrom(viewer, table, m) ==
    IF m > 4 THEN <<>>
    ELSE LET i == FirstRow(table, m)
             entry == IF m \in team_members(viewer) /\ i # 0
                      THEN IF can_view(viewer, table[i])
                           THEN <<[employee_id |-> m,
                                   assessment |-> table[i].assessment]>>
                           ELSE <<>>
                      ELSE <<>>
         IN  entry \o ScoresFrom(viewer, table, m + 1)

\* get_team_stress_scores
TeamScores(viewer) ==
    /\ role(viewer) \in {"supervisor", "hr_manager"}
    /\ Quiet
    /\ team_view = NoView
    /\ stress_scores # <<>>
    /\ team_view' = [viewer |-> viewer,
                     team_scores |-> ScoresFrom(viewer, stress_scores, 1)]
    /\ UNCHANGED <<stress_scores, submit_pc, submit_req, submit_resp>>
    /\ UNCHANGED <<bookingVars, calcVars, scoreVars>>

TeamScoresReturn ==
    /\ team_view # NoView
    /\ team_view' = NoView
    /\ UNCHANGED <<stress_scores, submit_pc, submit_req, submit_resp>>
    /\ UNCHANGED <<bookingVars, calcVars, scoreVars>>

\* ---------------------------------------------------------- specifications
Next ==
    \/ Tick
    \/ \E p \in Procs : Return(p)
    \/ \E p \in Procs : Insert(p)
    \/ \E p \in Procs, c \in Consultants, d \in Dates : BookPsychiatrist(p, c, d)
    \/ \E p \in Procs, c \in Consultants, d \in Dates : BookPsychiatristForEmployee(p, c, d)
    \/ \E p \in Procs, c \in Consultants, d \in Dates : BookConsultation(p, c, d)
    \/ \E p \in Procs, c \in Consultants, d \in Dates : HrBookConsultant(p, c, d)
    \/ \E p \in Procs, c \in Consultants, d \in Dates : HrBookPsychiatrist(p, c, d)
    \/ \E p \in Procs, c \in Consultants, b \in Ids, st \in RequestedStatuses :
          \E reason \in ReasonsFor(st) : ApproveBegin(p, c, b, st, reason)
    \/ \E p \in Procs : ApproveSweep(p)
    \/ \E p \in Procs : ApproveCommit(p)
    \/ \E p \in Procs : RejectCommit(p)
    \/ \E p \in Procs, b \in Ids, owner \in BOOLEAN, d \in Dates :
          UpdatePsychiatristBooking(p, b, owner, d)
    \/ \E p \in Procs, b \in Ids, owner \in BOOLEAN, c \in Consultants, d \in Dates :
          UpdateBooking(p, b, owner, c, d)
    \/ \E p \in Procs, b \in Ids, owner \in BOOLEAN : CancelPsychiatristBooking(p, b, owner)
    \/ \E p \in Procs, b \in Ids, owner \in BOOLEAN : CancelBooking(p, b, owner)
    \/ \E p \in Procs, c \in Consultants, b \in Ids : CompleteSession(p, c, b)

\* The handlers whose check-then-write sequences race with one another.
NextConc ==
    \/ \E p \in Procs : Return(p)
    \/ \E p \in Procs : Insert(p)
    \/ \E p \in Procs, c \in Consultants, d \in Dates : BookPsychiatrist(p, c, d)
    \/ \E p \in Procs, c \in Consultants, d \in Dates : BookPsychiatristForEmployee(p, c, d)
    \/ \E p \in Procs, c \in Consultants, d \in Dates : HrBookPsychiatrist(p, c, d)
    \/ \E p \in Procs, c \in Consultants, b \in Ids, st \in RequestedStatuses :
          \E reason \in ReasonsFor(st) : ApproveBegin(p, c, b, st, reason)
    \/ \E p \in Procs : ApproveSweep(p)
    \/ \E p \in Procs : ApproveCommit(p)
    \/ \E p \in Procs : RejectCommit(p)

Spec == Init /\ [][Next]_vars

SpecConc == InitConc /\ [][NextConc]_vars

\* The psychiatrist router's notifying handlers, served one at a time, with
\* notifications that may fail.
NextNotify ==
    \/ Tick
    \/ \E p \in Procs : Return(p)
    \/ \E p \in Procs : Insert(p)
    \/ \E p \in Procs, c \in Consultants, d \in Dates : BookPsychiatrist(p, c, d)
    \/ \E p \in Procs, c \in Consultants, d \in Dates : HrBookPsychiatrist(p, c, d)
    \/ \E p \in Procs, c \in Consultants, b \in Ids, st \in RequestedStatuses :
          \E reason \in ReasonsFor(st) : ApproveBegin(p, c, b, st, reason)
    \/ \E p \in Procs : ApproveSweep(p)
    \/ \E p \in Procs : ApproveCommit(p)
    \/ \E p \in Procs : RejectCommit(p)
    \/ \E p \in Procs, c \in Consultants, b \in Ids : CompleteSession(p, c, b)
    \/ \E p \in Procs : InsertNotifyFailure(p)
    \/ \E p \in Procs, committed \in BOOLEAN : ApproveSweepNotifyFailure(p, committed)
    \/ \E p \in Procs, committed \in BOOLEAN : ApproveCommitNotifyFailure(p, committed)
    \/ \E p \in Procs, committed \in BOOLEAN : RejectCommitNotifyFailure(p, committed)
    \/ \E p \in Procs, c \in Consultants, b \in Ids : CompleteSessionNotifyFailure(p, c, b)

SpecNotify == Init /\ [][NextNotify]_vars

\* The available-times calls on one consultant and one date, one at a time.
NextSlots ==
    \/ \E t \in BookingTimes, d \in Durations : CreateBooking(t, d)
    \/ ConsultantTimesBegin
    \/ ConsultantTimesStep
    \/ PsychiatristTimesBegin
    \/ PsychiatristTimesStep
    \/ TimetableBegin
    \/ TimetableWithoutAvailability
    \/ TimetableStep
    \/ CalcReturn

SpecSlots == InitSlots /\ [][NextSlots]_vars

\* The round trip: bookings are created and the mounted available-times
\* endpoint (main.py includes the router of hr_consultants.py) is fetched.
NextRoundTrip ==
    \/ \E t \in BookingTimes, d \in Durations : CreateBooking(t, d)
    \/ ConsultantTimesBegin
    \/ ConsultantTimesStep
    \/ CalcReturn

SpecRoundTrip == InitSlots /\ [][NextRoundTrip]_vars

\* The timetable of one consultant for one date, with bookings of that
\* consultant on that date and on others.
InitTimetable ==
    /\ InitTable
    /\ workers = {1}
    /\ day_availabilities \in SeqsUpTo(WindowChoices, 1)
    /\ day_bookings \in SetsUpTo(BookingChoices, MaxStoredBookings)
    /\ other_date_bookings \in SetsUpTo(BookingChoices, MaxOtherDateBookings)
    /\ NoCall
    /\ ScoreIdle
    /\ RecordsIdle

NextTimetable ==
    \/ \E t \in BookingTimes, d \in Durations : CreateBooking(t, d)
    \/ \E t \in BookingTimes, d \in Durations : CreateBookingOtherDate(t, d)
    \/ TimetableBegin
    \/ TimetableWithoutAvailability
    \/ TimetableStep
    \/ CalcReturn

SpecTimetable == InitTimetable /\ [][NextTimetable]_vars

NextPss == CalculatePssScore

SpecPss == InitPss /\ [][NextPss]_vars

NextWorkload ==
    \/ WorkloadTask
    \/ WorkloadBaseScore

SpecWorkload == InitWorkload /\ [][NextWorkload]_vars

\* submit_stress_assessment up to the final score.
NextStress ==
    \/ CalculatePssScore
    \/ WorkloadTask
    \/ WorkloadBaseScore
    \/ WorkloadPenalties
    \/ CalculateFinalStressScore

SpecStress == InitStress /\ [][NextStress]_vars

\* The stress requests served one at a time, and by two workers at once.
NextRecords ==
    \/ \E p \in Procs, u \in Users, a \in Assessments, ss \in Flags, sh \in Flags :
          SubmitLookup(p, u, a, ss, sh)
    \/ \E p \in Procs : SubmitWrite(p)
    \/ \E u \in Users, ss \in OptionalFlags, sh \in OptionalFlags :
          UpdateSharing(u, ss, sh)
    \/ \E viewer \in Users : TeamScores(viewer)
    \/ TeamScoresReturn

SpecRecords == Init /\ [][NextRecords]_vars

NextRecordsConc ==
    \/ \E p \in Procs, u \in Users, a \in Assessments, ss \in Flags, sh \in Flags :
          SubmitLookup(p, u, a, ss, sh)
    \/ \E p \in Procs : SubmitWrite(p)

SpecRecordsConc == InitConc /\ [][NextRecordsConc]_vars

\* ------------------------------------------------------------------ claims
SameSlot(i, j) ==
    /\ bookings[i].consultant_id = bookings[j].consultant_id
    /\ bookings[i].booking_date = bookings[j].booking_date

ActiveStatuses == {"pending", "approved", "completed"}

\* C1: for each (consultant_id, booking_date) pair at most one booking has
\* status pending, approved or completed.
C1_OneActiveBookingPerSlot ==
    \A i \in Ids, j \in Ids :
        (i # j /\ SameSlot(i, j)) =>
            ~(bookings[i].status \in ActiveStatuses /\ bookings[j].status \in ActiveStatuses)

AllowedTransitions ==
    { <<"pending", "approved">>, <<"pending", "rejected">>, <<"pending", "cancelled">>,
      <<"approved", "completed">>, <<"approved", "cancelled">> }

\* C2: a booking's status changes only along pending -> approved | rejected |
\* cancelled and approved -> completed | cancelled; rejected, completed and
\* cancelled are final.
C2_StatusFollowsStateMachine ==
    [][ \A i \in Ids :
          bookings'[i].status # bookings[i].status =>
              <<bookings[i].status, bookings'[i].status>> \in AllowedTransitions ]_vars

PendingSiblings(b) ==
    { i \in Ids : i # b /\ SameSlot(i, b) /\ bookings[i].status = "pending" }

Approving(p) == req[p].op = "approve" /\ req[p].status = "approved"

\* C3: an approval of pending booking b that finds N other pending bookings
\* at b's (consultant_id, booking_date) sweeps exactly those N: when it has
\* succeeded b is approved, each of the N is cancelled with a non-empty
\* rejection_reason, none is left pending, and cancelled_conflicts = N.
C3_ApprovalCancelsEveryPendingSibling ==
    \A p \in workers :
        LET b == req[p].booking_id
            found == req[p].conflicting_bookings
            swept == found \ req[p].remaining
        IN  /\ (Approving(p) /\ pc[p] = "sweep") =>
                /\ req[p].remaining = PendingSiblings(b)
                /\ req[p].cancelled_count = Cardinality(swept)
                /\ \A i \in swept : /\ bookings[i].status = "cancelled"
                                    /\ bookings[i].rejection_reason # NoReason
            /\ (Approving(p) /\ pc[p] = "done" /\ resp[p].code = "ok") =>
                /\ bookings[b].status = "approved"
                /\ PendingSiblings(b) = {}
                /\ resp[p].cancelled_conflicts = Cardinality(found)
                /\ \A i \in found : /\ SameSlot(i, b)
                                    /\ bookings[i].status = "cancelled"
                                    /\ bookings[i].rejection_reason # NoReason

\* Three pending requests at one slot, one approved: the other two cancelled.
C3_Witness ==
    \E p \in workers :
        /\ Approving(p) /\ pc[p] = "done" /\ resp[p].code = "ok"
        /\ resp[p].cancelled_conflicts = 2
        /\ bookings[req[p].booking_id].status = "approved"

\* C4: approve_booking on a booking of the caller that is not pending fails
\* with a state error, goes no further (no approval, no sweep) and changes no
\* booking; so does a second approval of the same booking.
C4_ApproveOnlyPending ==
    [][ \A p \in Procs :
          (pc[p] = "idle" /\ req'[p].op = "approve") =>
              LET b == req'[p].booking_id
                  c == bookings[b].consultant_id
              IN  \A st \in RequestedStatuses, reason \in GivenReasons :
                    (ApproveBegin(p, c, b, st, reason) /\ bookings[b].status # "pending") =>
                        /\ pc'[p] = "done"
                        /\ resp'[p].code = "StateError"
                        /\ bookings' = bookings ]_vars

\* A second approval of an approved booking has been refused.
C4_Witness ==
    \E p \in workers :
        /\ pc[p] = "done" /\ req[p].op = "approve" /\ resp[p].code = "StateError"
        /\ bookings[req[p].booking_id].status = "approved"

\* C5: no committed state shows the approval sweep partly applied: the target
\* approved while a sibling found by the sweep is still pending, or a sibling
\* already cancelled while the target is still pending.
C5_SweepCommittedAtOnce ==
    \A p \in workers :
        Approving(p) =>
            LET b == req[p].booking_id
                found == req[p].conflicting_bookings
            IN  /\ ~( /\ bookings[b].status = "approved"
                      /\ \E i \in found : bookings[i].status = "pending" )
                /\ ~( /\ bookings[b].status = "pending"
                      /\ \E i \in found : bookings[i].status = "cancelled" )

RequestBookingOps == {"book_psychiatrist", "book_psychiatrist_for_employee"}

HasBooked(p) ==
    /\ pc[p] = "done"
    /\ req[p].op \in RequestBookingOps
    /\ resp[p].code = "ok"
    /\ bookings[resp[p].booking_id].status = "pending"
    /\ bookings[resp[p].booking_id].consultant_id = req[p].consultant_id
    /\ bookings[resp[p].booking_id].booking_date = req[p].booking_date

\* C6: two overlapping request_booking calls for one (consultant_id,
\* booking_date) never both pass the existence check and both create a
\* pending booking.
C6_OneRequestWinsTheSlot ==
    \A p \in Procs, q \in Procs :
        (p # q /\ HasBooked(p) /\ HasBooked(q)) =>
            ~( /\ req[p].consultant_id = req[q].consultant_id
               /\ req[p].booking_date = req[q].booking_date )

\* Two approvals that each found the other's booking pending have overlapped.
ApprovedTogether(p, q) ==
    /\ p # q
    /\ Approving(p) /\ Approving(q)
    /\ pc[p] = "done" /\ pc[q] = "done"
    /\ req[q].booking_id \in req[p].conflicting_bookings
    /\ req[p].booking_id \in req[q].conflicting_bookings

\* C7: of two overlapping approvals of two pending bookings of one slot at
\* most one succeeds, and in the end exactly one of the two bookings is
\* approved and the other cancelled.
C7_OneApprovalWinsTheSlot ==
    \A p \in Procs, q \in Procs :
        ApprovedTogether(p, q) =>
            /\ ~(resp[p].code = "ok" /\ resp[q].code = "ok")
            /\ { bookings[req[p].booking_id].status, bookings[req[q].booking_id].status }
                 = {"approved", "cancelled"}

BookingCall(p, c, d) ==
    \/ BookPsychiatrist(p, c, d)
    \/ BookPsychiatristForEmployee(p, c, d)
    \/ BookConsultation(p, c, d) /\ IsAvailable(c, d)
    \/ HrBookConsultant(p, c, d)
    \/ HrBookPsychiatrist(p, c, d)

\* C8: a booking request for a future (consultant_id, booking_date) at which
\* a pending or approved booking exists fails with a conflict error and
\* creates no booking.
C8_TakenSlotIsRefused ==
    [][ \A p \in Procs, c \in Consultants, d \in Dates :
          ( /\ BookingCall(p, c, d)
            /\ d > now
            /\ \E i \in Ids : /\ bookings[i].consultant_id = c
                              /\ bookings[i].booking_date = d
                              /\ bookings[i].status \in {"pending", "approved"} ) =>
              /\ pc'[p] = "done"
              /\ resp'[p].code = "ConflictError"
              /\ bookings' = bookings ]_vars

\* C9: every booking-creation operation fails with a validation error and
\* creates no booking when booking_date <= now.
C9_PastDateIsRefused ==
    [][ \A p \in Procs, c \in Consultants, d \in Dates :
          (BookingCall(p, c, d) /\ d <= now) =>
              /\ pc'[p] = "done"
              /\ resp'[p].code = "ValidationError"
              /\ bookings' = bookings ]_vars

CancelCall(p, b) ==
    \/ CancelPsychiatristBooking(p, b, TRUE)
    \/ CancelBooking(p, b, TRUE)

\* C10: cancel_booking by the booking's employee succeeds only when the
\* booking is pending or approved and its booking_date is in the future;
\* otherwise the call is refused and the booking is left unchanged.
C10_CancelOnlyOpenFutureBookings ==
    [][ \A p \in Procs, b \in Ids :
          ( /\ CancelCall(p, b)
            /\ \/ bookings[b].status \notin {"pending", "approved"}
               \/ bookings[b].booking_date <= now ) =>
              /\ resp'[p].code # "ok"
              /\ bookings' = bookings ]_vars

\* C11: complete_booking by the booking's consultant succeeds only on an
\* approved booking, which it makes completed and nothing else; on a booking
\* of any other status it fails with a state error and changes no booking.
C11_CompleteOnlyApproved ==
    [][ \A p \in workers, c \in Consultants, b \in Ids :
          (CompleteSession(p, c, b) /\ bookings[b].consultant_id = c) =>
              IF bookings[b].status = "approved"
                THEN /\ resp'[p].code = "ok"
                     /\ bookings' = [bookings EXCEPT ![b].status = "completed"]
                ELSE /\ resp'[p].code = "StateError"
                     /\ bookings' = bookings ]_vars

\* An approved session has been marked as completed.
C11_Witness ==
    \E p \in workers :
        /\ pc[p] = "done" /\ resp[p].code = "ok" /\ resp[p].booking_id \in Ids
        /\ bookings[resp[p].booking_id].status = "completed"

Rejecting(p) == req[p].op = "approve" /\ req[p].status = "rejected"

\* C12: reject_booking by the booking's consultant on a pending booking with
\* a non-empty reason makes that booking rejected with the reason stored and
\* changes no other booking; with a missing or empty reason it fails with a
\* validation error and writes nothing, so the booking stays pending.
C12_RejectNeedsAReason ==
    [][ \A p \in workers :
          /\ RejectCommit(p) =>
                LET b == req[p].booking_id IN
                /\ bookings[b].status = "pending"
                /\ req[p].reason # NoReason
                /\ resp'[p].code = "ok"
                /\ bookings' = [bookings EXCEPT ![b].status = "rejected",
                                                ![b].rejection_reason = req[p].reason]
          /\ \A c \in Consultants, b \in Ids, reason \in GivenReasons :
                ( /\ ApproveBegin(p, c, b, "rejected", reason)
                  /\ bookings[b].consultant_id = c
                  /\ bookings[b].status = "pending" ) =>
                    /\ bookings' = bookings
                    /\ IF reason = NoReason
                         THEN pc'[p] = "done" /\ resp'[p].code = "ValidationError"
                         ELSE pc'[p] = "reject" /\ req'[p].reason = reason ]_vars

\* A rejection with a reason has succeeded and a pending booking of the same
\* slot is still pending.
C12_Witness ==
    \E p \in workers :
        /\ Rejecting(p) /\ pc[p] = "done" /\ resp[p].code = "ok"
        /\ bookings[req[p].booking_id].status = "rejected"
        /\ bookings[req[p].booking_id].rejection_reason = req[p].reason
        /\ req[p].reason # NoReason
        /\ PendingSiblings(req[p].booking_id) # {}

\* C13: a request_booking, approve_booking, reject_booking or
\* complete_booking step in which a notification fails ends as the same step
\* does when the notification is delivered: the same booking write is
\* committed and the operation goes on to return success.
C13_NotificationFailureIsHarmless ==
    [][ \A p \in workers :
          /\ InsertNotifyFailure(p) => Insert(p)
          /\ (\E committed \in BOOLEAN : ApproveSweepNotifyFailure(p, committed))
                => ApproveSweep(p)
          /\ (\E committed \in BOOLEAN : ApproveCommitNotifyFailure(p, committed))
                => ApproveCommit(p)
          /\ (\E committed \in BOOLEAN : RejectCommitNotifyFailure(p, committed))
                => RejectCommit(p)
          /\ \A c \in Consultants, b \in Ids :
                CompleteSessionNotifyFailure(p, c, b) => CompleteSession(p, c, b) ]_vars

AvailableTimesReturned ==
    /\ at = "returned"
    /\ fn \in {"get_consultant_available_times", "get_psychiatrist_available_times"}

Listed == { available_times[i] : i \in 1 .. Len(available_times) }

\* The 30-minute slots start_time + 30i of a window that end within it.
WindowSlots(w) ==
    { Slot(w.start_time + 30 * i, w.start_time + 30 * i + 30) :
        i \in { j \in 0 .. 47 : w.start_time + 30 * j + 30 <= w.end_time } }

GeneratedSlots ==
    UNION { WindowSlots(day_availabilities[i]) : i \in 1 .. Len(day_availabilities) }

Overlaps(e, b) ==
    /\ e.start_time < b.time + b.duration_minutes
    /\ e.end_time > b.time

\* C14: in a returned available-times result a generated slot is listed
\* exactly when no pending, approved or completed booking of the consultant
\* on that date overlaps it.
C14_ListedIffNoActiveBookingOverlaps ==
    AvailableTimesReturned =>
        \A e \in GeneratedSlots :
            (e \in Listed) <=>
                ~ \E b \in day_bookings : b.status \in ActiveStatuses /\ Overlaps(e, b)

ConsultantTimesReturned ==
    /\ at = "returned"
    /\ fn = "get_consultant_available_times"

C16_SlotsFillTheWindowAndNoMore ==
    /\ AvailableTimesReturned =>
          /\ Listed \subseteq GeneratedSlots
          /\ day_bookings = {} => GeneratedSlots \subseteq Listed
    /\ (at = "returned" /\ fn = "get_psychiatrist_timetable" /\ day_bookings = {}) =>
          { Slot(slots[i].start_time, slots[i].end_time) : i \in 1 .. Len(slots) }
            = UNION { WindowSlots(availability[i]) : i \in 1 .. Len(availability) }

\* C17: slot generation for a window comes to an end: its loop never stands
\* at a time of day at which it has already stood for that window (such a
\* loop, whose test reads nothing else, repeats for ever).
C17_SlotGenerationEnds ==
    at = "loop" => current_time \notin passed

\* C18: a returned available-times result is in ascending order of slot start
\* time and lists no slot twice, whatever the number, order and overlap of
\* the day's availability windows.
C18_OrderedWithoutDuplicates ==
    AvailableTimesReturned =>
        \A i \in 1 .. Len(available_times), j \in 1 .. Len(available_times) :
            i < j => available_times[i].start_time < available_times[j].start_time

ValidAnswers ==
    /\ Len(answers) = 10
    /\ \A i \in 1..Len(answers) : answers[i] \in 0..4

\* C19: for ten answers, each in 0..4, calculate_pss_score returns the raw
\* sum in which the answers at indices 3, 4, 6 and 7 (from zero) count as
\* 4 - answer, a raw score in 0..40 and normalized = raw * 10 / 40 in 0..10
\* (held in hundredths); for any other list it fails with a validation error.
C19_PssScore ==
    pss # NoPss =>
        IF ValidAnswers
        THEN /\ pss.status_code = 200
             /\ pss.total_score =
                    answers[1] + answers[2] + answers[3] + (4 - answers[4])
                      + (4 - answers[5]) + answers[6] + (4 - answers[7])
                      + (4 - answers[8]) + answers[9] + answers[10]
             /\ pss.total_score \in 0..40
             /\ pss.normalized_pss * 40 = pss.total_score * 10 * 100
             /\ pss.normalized_pss \in 0..1000
        ELSE pss.status_code = 400

\* Ten valid answers have been scored; the answer 0 at index 3 counted 4 and
\* the answer 4 at index 0 counted 4.
C19_Witness ==
    /\ pss.status_code = 200
    /\ answers[4] = 0
    /\ answers[1] = 4
    /\ \A i \in 1..10 : i \notin {1, 4} => answers[i] = (IF i \in {5, 7, 8} THEN 4 ELSE 0)
    /\ pss.total_score = 8

RECURSIVE TotalMinutes(_, _)
TotalMinutes(sq, n) == IF n = 0 THEN 0 ELSE TotalMinutes(sq, n - 1) + sq[n]

\* C20: the base score (in tenths) is 0.0 for total hours below 7.22, 0.5
\* from 7.23 to 9.00, 1.0 from 9.01 to 11.99 and 2.0 from 12.0; tasks that
\* add up to exactly 9 hours score 0.5, and 2.0 is given only from 12.0 hours.
C20_BaseScoreBands ==
    raw_workload_score # NotScored =>
        LET h == total_hours_worked
        IN  /\ FloatLess(h, Hundredths(722)) => raw_workload_score = 0
            /\ FloatLeq(Hundredths(723), h) /\ FloatLeq(h, Hundredths(900))
                 => raw_workload_score = 5
            /\ FloatLeq(Hundredths(901), h) /\ FloatLeq(h, Hundredths(1199))
                 => raw_workload_score = 10
            /\ FloatLeq(Hundredths(1200), h) => raw_workload_score = 20
            /\ raw_workload_score = 20 => FloatLeq(Hundredths(1200), h)
            /\ TotalMinutes(tasks, Len(tasks)) = 9 * 60 => raw_workload_score = 5

\* C21: the three additional stress factors stay within their caps (0.5, 0.5
\* and 0.3), the total is min(base + factors, 2.0) and so never above 2.0,
\* and the normalized workload (total / 2.0) * 10 lies in 0..10.
C21_WorkloadCapped ==
    workload_details.done =>
        LET w == workload_details
        IN  /\ FloatLeq(w.priority_stress, Tenths(5))
            /\ FloatLeq(w.overdue_stress, Tenths(5))
            /\ FloatLeq(w.pending_stress, Tenths(3))
            /\ FloatLeq(w.total_workload_stress, FromInt(2))
            /\ \A s1 \in {FloatAdd(Tenths(raw_workload_score), w.priority_stress)} :
                 \A s2 \in {FloatAdd(s1, w.overdue_stress)} :
                   \A s3 \in {FloatAdd(s2, w.pending_stress)} :
                     w.total_workload_stress =
                         (IF FloatLess(FromInt(2), s3) THEN FromInt(2) ELSE s3)
            /\ \A half \in {FloatMul(w.total_workload_stress, TrueDiv(1, 2))} :
                 w.normalized_workload_stress = FloatMul(half, FromInt(10))
            /\ FloatLeq(FloatZero, w.normalized_workload_stress)
            /\ FloatLeq(w.normalized_workload_stress, FromInt(10))

\* Every factor is at its cap on top of the highest base score, and the
\* total has been cut to 2.0.
C21_Witness ==
    /\ workload_details.done
    /\ raw_workload_score = 20
    /\ high_priority_tasks = 6
    /\ overdue_tasks = 6
    /\ pending_tasks = 6
    /\ workload_details.priority_stress = Tenths(5)
    /\ workload_details.overdue_stress = Tenths(5)
    /\ workload_details.pending_stress = Tenths(3)
    /\ workload_details.total_workload_stress = FromInt(2)
    /\ workload_details.normalized_workload_stress = FromInt(10)

\* The total workload stress and the final score in exact arithmetic, in
\* hundredths and in two-hundredths.
Smaller(a, b) == IF a < b THEN a ELSE b

ExactTotal ==
    Smaller(10 * raw_workload_score + Smaller(10 * high_priority_tasks, 50)
              + Smaller(20 * overdue_tasks, 50) + Smaller(5 * pending_tasks, 30),
            200)

ExactFinal == 35 * pss.total_score + 3 * ExactTotal

\* C22: the final score is 0.7 * normalized_pss + 0.3 * normalized_workload,
\* lies in 0..10 (0 for 0 and 0, 10 for 10 and 10), and the level is low iff
\* final <= 3.0, moderate iff 3.0 < final <= 6.0, high iff 6.0 < final <= 8.5
\* and critical iff final > 8.5, for the float returned and for the exact
\* value of the formula alike.
C22_FinalScoreAndLevel ==
    final # NoFinal =>
        \A np \in {NormalizedPss(pss.total_score)} :
            LET nw == workload_details.normalized_workload_stress
                f  == final.final_stress_score
            IN  /\ \A a \in {FloatMul(np, Tenths(7))}, b \in {FloatMul(nw, Tenths(3))} :
                     f = FloatAdd(a, b)
                /\ FloatLeq(FloatZero, f)
                /\ FloatLeq(f, FromInt(10))
                /\ (np = FloatZero /\ nw = FloatZero) => f = FloatZero
                /\ (np = FromInt(10) /\ nw = FromInt(10)) => f = FromInt(10)
                /\ (final.level = "low") = FloatLeq(f, FromInt(3))
                /\ (final.level = "moderate") =
                       (FloatLess(FromInt(3), f) /\ FloatLeq(f, FromInt(6)))
                /\ (final.level = "high") =
                       (FloatLess(FromInt(6), f) /\ FloatLeq(f, Tenths(85)))
                /\ (final.level = "critical") = FloatLess(Tenths(85), f)
                /\ (final.level = "low") = (ExactFinal <= 600)
                /\ (final.level = "moderate") =
                       (600 < ExactFinal /\ ExactFinal <= 1200)
                /\ (final.level = "high") =
                       (1200 < ExactFinal /\ ExactFinal <= 1700)
                /\ (final.level = "critical") = (1700 < ExactFinal)

\* The highest PSS score and the highest workload give the final score 10
\* and the level critical.
C22_Witness ==
    /\ final.level = "critical"
    /\ final.final_stress_score = FromInt(10)
    /\ pss.total_score = 40
    /\ workload_details.normalized_workload_stress = FromInt(10)

\* The band of m whole minutes, read in exact arithmetic (m / 60 hours
\* against the bounds in hundredths of an hour), in tenths.
BandOfMinutes(m) ==
    IF 100 * m < 722 * 60 THEN 0
    ELSE IF 723 * 60 <= 100 * m /\ 100 * m <= 900 * 60 THEN 5
    ELSE IF 901 * 60 <= 100 * m /\ 100 * m <= 1199 * 60 THEN 10
    ELSE 20

\* C30: with durations in whole minutes the base score follows the total
\* number of minutes m: it is the score of the band of m / 60 (and so does
\* not decrease as m grows), no total lies in a gap between the bands, and
\* the fall-through value 2.0 is given only for m >= 720.
C30_BaseScoreFollowsTheMinutes ==
    raw_workload_score # NotScored =>
        LET m == TotalMinutes(tasks, Len(tasks))
        IN  /\ raw_workload_score = BandOfMinutes(m)
            /\ ~(722 * 60 <= 100 * m /\ 100 * m < 723 * 60)
            /\ ~(900 * 60 < 100 * m /\ 100 * m < 901 * 60)
            /\ ~(1199 * 60 < 100 * m /\ 100 * m < 1200 * 60)
            /\ raw_workload_score = 20 => m >= 720

RecordsOf(table, u) == { i \in 1..Len(table) : table[i].employee_id = u }

\* C23: with the submit-assessment calls served one after another, nobody
\* ever has two stress-score records: the first submission of a user adds the
\* user's one record, and a later submission overwrites that record (same id,
\* no row added) and answers with its id.
C23_OneRecordPerEmployee ==
    [][ /\ \A u \in Users : Cardinality(RecordsOf(stress_scores', u)) <= 1
        /\ \A p \in Procs :
             SubmitWrite(p) =>
               LET u == submit_req[p].user
               IN  /\ Cardinality(RecordsOf(stress_scores', u)) = 1
                   /\ \A i \in RecordsOf(stress_scores', u) :
                        /\ stress_scores'[i].assessment = submit_req[p].assessment
                        /\ stress_scores'[i].id = submit_resp'[p].id
                   /\ IF RecordsOf(stress_scores, u) = {}
                      THEN Len(stress_scores') = Len(stress_scores) + 1
                      ELSE /\ Len(stress_scores') = Len(stress_scores)
                           /\ \A i \in RecordsOf(stress_scores, u) :
                                stress_scores'[i].id = stress_scores[i].id ]_vars

\* A second submission of a user has overwritten the user's record, which is
\* not the only record of the table.
C23_Witness ==
    \E p \in Procs :
        /\ submit_resp[p].message = "Stress assessment updated successfully"
        /\ Len(stress_scores) >= 2
        /\ \E i \in 1..Len(stress_scores) :
             /\ stress_scores[i].id = submit_resp[p].id
             /\ stress_scores[i].assessment = 2

\* C27: when two submit-assessment calls of one user who has no record yet
\* run at once, the user ends with exactly one record under every
\* interleaving of their lookups and inserts.
C27_OneRecordUnderConcurrency ==
    \A u \in Users : Cardinality(RecordsOf(stress_scores, u)) <= 1

\* The table with the assessment of every record the viewer is not allowed
\* to see blanked.
Hidden(viewer, table) ==
    [i \in 1..Len(table) |->
       IF (role(viewer) = "supervisor" /\ table[i].share_with_supervisor = "True")
            \/ (role(viewer) = "hr_manager" /\ table[i].share_with_hr = "True")
       THEN table[i]
       ELSE [table[i] EXCEPT !.assessment = 0]]

\* C28: team-scores gives a supervisor only records of the own team's
\* employees with share_with_supervisor true and an HR manager only records
\* with share_with_hr true, and the list is the same when the records without
\* the flag hold other scores; a supervisor's record never has
\* share_with_supervisor true and an HR manager's record has neither flag true.
C28_OnlySharedScoresAreShown ==
    [][ /\ \A i \in 1..Len(stress_scores') :
             LET row == stress_scores'[i]
             IN  /\ role(row.employee_id) = "supervisor"
                      => row.share_with_supervisor # "True"
                 /\ role(row.employee_id) = "hr_manager"
                      => /\ row.share_with_supervisor # "True"
                         /\ row.share_with_hr # "True"
        /\ \A viewer \in Users :
             TeamScores(viewer) =>
               /\ team_view'.team_scores =
                      ScoresFrom(viewer, Hidden(viewer, stress_scores), 1)
               /\ \A n \in 1..Len(team_view'.team_scores) :
                    LET e == team_view'.team_scores[n]
                    IN  \E i \in 1..Len(stress_scores) :
                          /\ stress_scores[i].employee_id = e.employee_id
                          /\ stress_scores[i].assessment = e.assessment
                          /\ role(e.employee_id) = "employee"
                          /\ IF role(viewer) = "supervisor"
                             THEN /\ stress_scores[i].share_with_supervisor = "True"
                                  /\ team_id(e.employee_id) = team_id(viewer)
                             ELSE stress_scores[i].share_with_hr = "True" ]_vars

\* The supervisor is being shown the score of the own team's employee, who
\* shares it, while the other employee's record and an unshared flag exist.
C28_Witness ==
    /\ team_view.viewer = 3
    /\ Len(team_view.team_scores) = 1
    /\ team_view.team_scores[1].employee_id = 1
    /\ \E i \in 1..Len(stress_scores) :
         /\ stress_scores[i].employee_id = 2
         /\ stress_scores[i].share_with_supervisor = "True"
    /\ \E i \in 1..Len(stress_scores) :
         /\ stress_scores[i].employee_id = 1
         /\ stress_scores[i].share_with_hr # "True"

\* C29: update-sharing changes only the flags the request provides: a flag
\* left out keeps its value, a flag provided takes the value the caller's
\* role allows, and the computed columns and the other records stay as they
\* are.
C29_UpdateSharingKeepsWhatIsOmitted ==
    [][ \A u \in Users, ss \in OptionalFlags, sh \in OptionalFlags :
          UpdateSharing(u, ss, sh) =>
            LET i == FirstRow(stress_scores, u)
            IN  /\ Len(stress_scores') = Len(stress_scores)
                /\ \A j \in 1..Len(stress_scores) :
                     j # i => stress_scores'[j] = stress_scores[j]
                /\ stress_scores'[i].id = stress_scores[i].id
                /\ stress_scores'[i].employee_id = stress_scores[i].employee_id
                /\ stress_scores'[i].assessment = stress_scores[i].assessment
                /\ stress_scores'[i].share_with_supervisor =
                       (IF ss = "None"
                        THEN stress_scores[i].share_with_supervisor
                        ELSE ForcedSupervisorFlag(u, ss))
                /\ stress_scores'[i].share_with_hr =
                       (IF sh = "None"
                        THEN stress_scores[i].share_with_hr
                        ELSE ForcedHrFlag(u, sh)) ]_vars

\* C24: with the requests served one after another, no consultant ever has
\* two approved bookings at one booking_date.
C24_NoTwoApprovedAtOneSlot ==
    \A a, b \in 1..Len(bookings) :
        /\ a # b
        /\ bookings[a].status = "approved"
        /\ bookings[b].status = "approved"
        /\ bookings[a].consultant_id = bookings[b].consultant_id
        => bookings[a].booking_date # bookings[b].booking_date

\* A booking the approval of b may write: b itself, or a booking that is
\* pending at b's consultant_id and booking_date.
InApprovalScope(i, b) ==
    \/ i = b
    \/ /\ SameSlot(i, b)
       /\ bookings[i].status = "pending"

\* C25: while approve_booking runs on booking b, a step changes no booking
\* other than b and the pending bookings at b's consultant_id and
\* booking_date: a booking of another consultant, at another booking_date, or
\* at b's slot with a status other than pending keeps its status and its
\* rejection_reason, and no booking is added or removed.
C25_ApprovalLeavesOtherBookingsAlone ==
    [][ \A p \in workers :
          pc[p] \in {"sweep", "reject"} =>
              /\ Len(bookings') = Len(bookings)
              /\ \A i \in Ids :
                     ~InApprovalScope(i, req[p].booking_id) =>
                         /\ bookings'[i].status = bookings[i].status
                         /\ bookings'[i].rejection_reason =
                                bookings[i].rejection_reason ]_vars

\* An approval that cancelled a pending sibling and left an approved booking
\* at the same slot as it was.
C25_Witness ==
    \E p \in workers :
        /\ Approving(p) /\ pc[p] = "done" /\ resp[p].code = "ok"
        /\ resp[p].cancelled_conflicts = 1
        /\ \E i, j \in Ids :
             /\ i # req[p].booking_id /\ j # req[p].booking_id
             /\ SameSlot(i, req[p].booking_id)
             /\ SameSlot(j, req[p].booking_id)
             /\ bookings[i].status = "approved"
             /\ bookings[i].rejection_reason = NoReason
             /\ bookings[j].status = "cancelled"

TimetableReturned ==
    /\ at = "returned"
    /\ fn = "get_psychiatrist_timetable"

\* A slot of the response that lies inside the availability window.
InsideWindow(s) ==
    /\ availability # <<>>
    /\ availability[1].start_time <= s.start_time
    /\ s.start_time < s.end_time
    /\ s.end_time <= availability[1].end_time

\* C26: in a returned timetable for the date, a slot inside the availability
\* window is reported unavailable exactly when the consultant has a pending,
\* approved or completed booking on that date at the slot's start time;
\* bookings on other dates make no slot unavailable.
C26_UnavailableIffBookedOnThatDate ==
    TimetableReturned =>
        \A i \in 1 .. Len(slots) :
            InsideWindow(slots[i]) =>
                (~slots[i].available <=>
                    \E b \in day_bookings :
                        /\ b.status \in ActiveStatuses
                        /\ TimeOfDay(b.time) = slots[i].start_time)

====
